---- MODULE Spec2Model ----
(***************************************************************************)
(* graphenestorage: the MasterPassword manager (masterpassword.py) over a  *)
(* StoreInterface configuration store (interfaces.py).                     *)
(*                                                                         *)
(* Python values.  A str is a sequence of characters, a character is a     *)
(* natural number (hex digits are 0..15, '$' is 36, letters start at 97).  *)
(* None is a value outside the strings.  A dict is a function whose DOMAIN *)
(* is the set of its keys.                                                 *)
(*                                                                         *)
(* Every method is an operator from the state it is called in to a record  *)
(* [st, exc, ret]: the state it leaves, the exception it raises ("" when   *)
(* it returns normally) and the value it returns.  One action per public   *)
(* method applies the operator to the current state.                       *)
(***************************************************************************)
EXTENDS Integers, Sequences, FiniteSets, TLC

VARIABLES
    password,          \* MasterPassword.password
    decrypted_master,  \* MasterPassword.decrypted_master
    config,            \* MasterPassword.config, a StoreInterface (dict)
    defaults,          \* StoreInterface.defaults (class attribute)
    environ,           \* os.environ
    written_with,      \* history: the password the entry was last written with
    first_master,      \* history: the master secret of the first entry written
    last,              \* history: the last call, its outcome and the state before it
    hist               \* history: the calls of the scenario being followed

vars == <<password, decrypted_master, config, defaults, environ,
          written_with, first_master, last, hist>>

(***************************************************************************)
(* Bounds of the model.                                                    *)
(***************************************************************************)
NumPasswords == 2   \* distinct non-empty passwords
NumSecrets == 2     \* distinct outcomes of os.urandom(32)
NumWifs == 1        \* distinct private keys handed to encrypt

(***************************************************************************)
(* Values.                                                                 *)
(***************************************************************************)
None == <<-1>>

config_key == "encrypted_master_password"

Dollar == 36

EmptyDict == [k \in {} |-> None]

\* The non-empty passwords "a", "b", ... and the empty string.
Passwords == {<<96 + i>> : i \in 1..NumPasswords} \cup {<<>>}

\* hexlify(os.urandom(32)).decode("ascii"): a hex string, one per outcome.
Secrets == {<<i>> : i \in 1..NumSecrets}

Wifs == {<<i>> : i \in 1..NumWifs}

RECURSIVE Sum(_)
Sum(s) == IF s = <<>> THEN 0 ELSE Head(s) + Sum(Tail(s))

\* bool(x) of a str or None
bool(x) == x # None /\ Len(x) > 0

Ok(st, ret) == [st |-> st, exc |-> "", ret |-> ret]

Raise(st, e) == [st |-> st, exc |-> e, ret |-> None]

\* r, then K on its outcome: an exception raised by r propagates.
Then(r, K(_)) == IF r.exc # "" THEN r ELSE K(r)

(***************************************************************************)
(* External collaborators, modelled from their contract.                   *)
(*                                                                         *)
(* hashlib.sha256(..).hexdigest(): a fixed-length hex string; different    *)
(* one-character inputs have different first digits.                       *)
(***************************************************************************)
DigestLen == 6

hexdigest(s) == [i \in 1..DigestLen |-> (Sum(s) + 7 * (i - 1)) % 16]

(***************************************************************************)
(* graphenebase.aes.AESCipher(key): a symmetric cipher keyed by a hash of  *)
(* the password.  decrypt inverts encrypt under the same key; under        *)
(* another key it yields other characters, and raises when they are not    *)
(* text (the padding or the utf-8 decoding fails).                         *)
(***************************************************************************)
PlainMax == 8

aes_key(key) == Sum(key) % 16

aes_encrypt(key, raw) == [i \in 1..Len(raw) |-> (raw[i] + aes_key(key)) % 16]

aes_decrypt(key, enc) ==
    LET raw == [i \in 1..Len(enc) |-> (enc[i] - aes_key(key) + 16) % 16]
    IN  IF \E i \in 1..Len(raw) : raw[i] < 1 \/ raw[i] > PlainMax
        THEN [raised |-> TRUE, value |-> None]
        ELSE [raised |-> FALSE, value |-> raw]

(***************************************************************************)
(* graphenebase.bip38 with the "encwif" / "wif" renderings: the wrapped    *)
(* key carries a hash of the key it wraps, checked on decryption.          *)
(***************************************************************************)
Base58Offset == 48

bip38_encrypt(wif, passphrase) ==
    [i \in 1..(Len(wif) + 1) |->
        Base58Offset + (IF i = 1 THEN Sum(wif) % 16
                        ELSE (wif[i - 1] + Sum(passphrase)) % 16)]

bip38_decrypt(encwif, passphrase) ==
    IF encwif = <<>> \/ \E i \in 1..Len(encwif) : encwif[i] < Base58Offset
    THEN [raised |-> TRUE, value |-> None]
    ELSE LET raw == [i \in 1..(Len(encwif) - 1) |->
                        (encwif[i + 1] - Base58Offset - (Sum(passphrase) % 16) + 16) % 16]
         IN  IF Sum(raw) % 16 # encwif[1] - Base58Offset
             THEN [raised |-> TRUE, value |-> None]
             ELSE [raised |-> FALSE, value |-> raw]

(***************************************************************************)
(* str.split(sep) and "{}${}".format(a, b)                                 *)
(***************************************************************************)
RECURSIVE split(_, _)
split(s, sep) ==
    IF \A i \in 1..Len(s) : s[i] # sep
    THEN <<s>>
    ELSE LET i == CHOOSE i \in 1..Len(s) :
                      s[i] = sep /\ \A j \in 1..(i - 1) : s[j] # sep
         IN  <<SubSeq(s, 1, i - 1)>> \o split(SubSeq(s, i + 1, Len(s)), sep)

\* "{}{}".format(a, b): the entry without its separator
format_entry_without_separator(a, b) == a \o b

format_entry(a, b) == a \o <<Dollar>> \o b

(***************************************************************************)
(* StoreInterface (interfaces.py)                                          *)
(***************************************************************************)
contains(d, key) == key \in DOMAIN d

getitem(d, dflt, key) ==
    IF contains(d, key) THEN d[key]
    ELSE IF key \in DOMAIN dflt THEN dflt[key]
    ELSE None

\* dict.get(self, key, default)
get(d, key, default) == IF key \in DOMAIN d THEN d[key] ELSE default

setitem(d, key, value) ==
    [k \in (DOMAIN d) \cup {key} |-> IF k = key THEN value ELSE d[k]]

setdefault(dflt, key, value) ==
    [k \in (DOMAIN dflt) \cup {key} |-> IF k = key THEN value ELSE dflt[k]]

\* self.config_key in self.config and self.config[self.config_key]
has_entry(st) ==
    contains(st.config, config_key) /\ bool(getitem(st.config, st.defaults, config_key))

(***************************************************************************)
(* MasterPassword (masterpassword.py)                                      *)
(***************************************************************************)
RECURSIVE unlocked(_), unlock(_, _), new_master(_, _),
          save_encrypted_master(_), get_encrypted_master(_)

masterkey(st) == st.decrypted_master

has_masterpassword(st) == Ok(st, contains(st.config, config_key))

\* lock() discarding the password only
lock_keeping_master(st) == Ok([st EXCEPT !.password = None], None)

lock(st) == Ok([st EXCEPT !.password = None, !.decrypted_master = None], None)

ChecksumLen == 4

derive_checksum(s) == SubSeq(hexdigest(s), 1, ChecksumLen)

\* raise_wrong_master_password_exception() keeping the password
raise_wrong_master_password_exception_keeping_password(st) ==
    Raise(st, "WrongMasterPasswordException")

raise_wrong_master_password_exception(st) ==
    Raise([st EXCEPT !.password = None], "WrongMasterPasswordException")

\* decrypt_encrypted_master() without the try: the cipher's exception escapes
decrypt_encrypted_master_without_try(st) ==
    LET parts == split(getitem(st.config, st.defaults, config_key), Dollar)
    IN  IF Len(parts) # 2
        THEN Raise(st, "ValueError")
        ELSE LET checksum == parts[1]
                 encrypted_master == parts[2]
                 dec == aes_decrypt(st.password, encrypted_master)
             IN  IF dec.raised
                 THEN Raise(st, "ValueError")
                 ELSE IF checksum # derive_checksum(dec.value)
                 THEN raise_wrong_master_password_exception(st)
                 ELSE Ok([st EXCEPT !.decrypted_master = dec.value], None)

decrypt_encrypted_master(st) ==
    LET parts == split(getitem(st.config, st.defaults, config_key), Dollar)
    IN  IF Len(parts) # 2
        THEN Raise(st, "ValueError")
        ELSE LET checksum == parts[1]
                 encrypted_master == parts[2]
                 dec == aes_decrypt(st.password, encrypted_master)
             IN  IF dec.raised
                 THEN raise_wrong_master_password_exception(st)
                 ELSE IF checksum # derive_checksum(dec.value)
                 THEN \* raised inside the try, caught, raised again
                      raise_wrong_master_password_exception(
                          raise_wrong_master_password_exception(st).st)
                 ELSE Ok([st EXCEPT !.decrypted_master = dec.value], None)

\* unlocked() consulting the environment before the held password
unlocked_environment_first(st) ==
    IF /\ "UNLOCK" \in DOMAIN st.environ
       /\ bool(st.environ["UNLOCK"])
       /\ has_entry(st)
    THEN Then(unlock(st, st.environ["UNLOCK"]),
              LAMBDA r : Ok(r.st, bool(r.st.password)))
    ELSE IF st.password # None
         THEN Ok(st, bool(st.password))
         ELSE Ok(st, FALSE)

\* unlocked() trying the environment's password on a store without entry
unlocked_without_entry_test(st) ==
    IF st.password # None
    THEN Ok(st, bool(st.password))
    ELSE IF "UNLOCK" \in DOMAIN st.environ /\ bool(st.environ["UNLOCK"])
         THEN Then(unlock(st, st.environ["UNLOCK"]),
                   LAMBDA r : Ok(r.st, bool(r.st.password)))
         ELSE Ok(st, FALSE)

unlocked(st) ==
    IF st.password # None
    THEN Ok(st, bool(st.password))
    ELSE IF /\ "UNLOCK" \in DOMAIN st.environ
            /\ bool(st.environ["UNLOCK"])
            /\ has_entry(st)
         THEN Then(unlock(st, st.environ["UNLOCK"]),
                   LAMBDA r : Ok(r.st, bool(r.st.password)))
         ELSE Ok(st, FALSE)

locked(st) == Then(unlocked(st), LAMBDA r : Ok(r.st, ~r.ret))

\* unlock_calls counts the calls of unlock: it is not program state.
unlock(st, pw) ==
    LET st1 == [st EXCEPT !.password = pw, !.unlock_calls = @ + 1]
    IN  IF has_entry(st1)
        THEN decrypt_encrypted_master(st1)
        ELSE Then(new_master(st1, pw), LAMBDA r : Ok(r.st, None))

\* get_encrypted_master() without the test for a locked store
get_encrypted_master_unchecked(st) ==
    IF masterkey(st) = None THEN Raise(st, "TypeError")
    ELSE Ok(st, format_entry(derive_checksum(masterkey(st)),
                             aes_encrypt(st.password, masterkey(st))))

get_encrypted_master(st) ==
    Then(unlocked(st), LAMBDA u :
        IF ~u.ret THEN Raise(u.st, "WalletLocked")
        ELSE IF masterkey(u.st) = None THEN Raise(u.st, "TypeError")
        ELSE Ok(u.st, format_entry(derive_checksum(masterkey(u.st)),
                                   aes_encrypt(u.st.password, masterkey(u.st)))))

\* The history fields record what is written: they are not program state.
save_encrypted_master(st) ==
    Then(get_encrypted_master(st), LAMBDA r :
        Ok([r.st EXCEPT
               !.config = setitem(r.st.config, config_key, r.ret),
               !.written_with = r.st.password,
               !.first_master = IF r.st.first_master = None
                                THEN masterkey(r.st)
                                ELSE r.st.first_master],
           None))

\* new_master() generating the secret before the test for an existing entry
new_master_generating_first(st, pw) ==
    LET st1 == [st EXCEPT !.decrypted_master = st.urandom]
        st2 == [st1 EXCEPT !.password = pw]
    IN  IF has_entry(st1)
        THEN Raise(st1, "Exception")
        ELSE Then(save_encrypted_master(st2), LAMBDA r : Ok(r.st, masterkey(r.st)))

\* new_master() without the test for an existing entry
new_master_overwriting(st, pw) ==
    LET st1 == [st EXCEPT !.decrypted_master = st.urandom]
        st2 == [st1 EXCEPT !.password = pw]
    IN  Then(save_encrypted_master(st2), LAMBDA r : Ok(r.st, masterkey(r.st)))

new_master(st, pw) ==
    IF has_entry(st)
    THEN Raise(st, "Exception")
    ELSE LET st1 == [st EXCEPT !.decrypted_master = st.urandom]
             st2 == [st1 EXCEPT !.password = pw]
         IN  Then(save_encrypted_master(st2), LAMBDA r : Ok(r.st, masterkey(r.st)))

change_password(st, new_password) ==
    Then(unlocked(st), LAMBDA u :
        IF ~u.ret THEN Raise(u.st, "WalletLocked")
        ELSE save_encrypted_master([u.st EXCEPT !.password = new_password]))

decrypt(st, wif) ==
    Then(unlocked(st), LAMBDA u :
        IF ~u.ret THEN Raise(u.st, "WalletLocked")
        ELSE IF masterkey(u.st) = None THEN Raise(u.st, "TypeError")
        ELSE LET dec == bip38_decrypt(wif, masterkey(u.st))
             IN  IF dec.raised THEN Raise(u.st, "AssertionError")
                 ELSE Ok(u.st, dec.value))

\* encrypt() without the test for a locked store
encrypt_unchecked(st, wif) ==
    IF masterkey(st) = None THEN Raise(st, "TypeError")
    ELSE Ok(st, bip38_encrypt(wif, masterkey(st)))

encrypt(st, wif) ==
    Then(unlocked(st), LAMBDA u :
        IF ~u.ret THEN Raise(u.st, "WalletLocked")
        ELSE IF masterkey(u.st) = None THEN Raise(u.st, "TypeError")
        ELSE Ok(u.st, bip38_encrypt(wif, masterkey(u.st))))

(***************************************************************************)
(* The state machine.                                                      *)
(***************************************************************************)
\* The state a method is called in; rnd is what os.urandom returns next.
State(rnd) ==
    [password |-> password, decrypted_master |-> decrypted_master,
     config |-> config, defaults |-> defaults, environ |-> environ,
     urandom |-> rnd, unlock_calls |-> 0,
     written_with |-> written_with, first_master |-> first_master]

\* The state of a call whose method does not reach os.urandom: with an entry
\* in the store, or without the environment's password, new_master is not
\* called, so what os.urandom would return is immaterial.
Now == State(CHOOSE rnd \in Secrets : TRUE)

Snap(st) ==
    [password |-> st.password, decrypted_master |-> st.decrypted_master,
     config |-> st.config, written_with |-> st.written_with]

NoSnap ==
    [password |-> None, decrypted_master |-> None, config |-> EmptyDict,
     written_with |-> None]

Off == [on |-> FALSE, pre |-> NoSnap, calls |-> <<>>]

(***************************************************************************)
(* The scenarios followed in hist, each a sequence of calls from a state:  *)
(* unlock, lock, unlock from a store without entry; change_password, lock, *)
(* unlock, lock, unlock from an unlocked manager; encrypt, decrypt and     *)
(* encrypt, change_password, lock, unlock, decrypt from an unlocked        *)
(* manager.  hist holds the state the scenario started in and, per call,   *)
(* the outcome and the state left.                                         *)
(***************************************************************************)
OpScripts ==
    { <<"unlock", "lock", "unlock">>,
      <<"change_password", "lock", "unlock", "lock", "unlock">>,
      <<"encrypt", "decrypt">>,
      <<"encrypt", "change_password", "lock", "unlock", "decrypt">> }

Ops(calls) == [i \in 1..Len(calls) |-> calls[i].op]

IsPrefix(p, q) == Len(p) <= Len(q) /\ SubSeq(q, 1, Len(p)) = p

Starts(op, st) ==
    \/ op = "unlock" /\ ~has_entry(st)
    \/ op = "change_password" /\ bool(st.password)
    \/ op = "encrypt" /\ bool(st.password)

\* In the scenarios that start with encrypt(k), unlock is given the password
\* of the change_password before it and decrypt the outcome of encrypt(k).
\* In the scenario that starts with change_password(Q), the first unlock is
\* given Q and the second the password held when the scenario started.
Continues(h, call) ==
    /\ (h.calls # <<>> /\ h.calls[1].op = "encrypt") =>
           /\ call.op = "unlock" => call.arg = h.calls[2].arg
           /\ call.op = "decrypt" => call.arg = h.calls[1].ret
    /\ (h.calls # <<>> /\ h.calls[1].op = "change_password") =>
           /\ (call.op = "unlock" /\ Len(h.calls) = 2) => call.arg = h.calls[1].arg
           /\ (call.op = "unlock" /\ Len(h.calls) = 4) => call.arg = h.pre.password

Track(h, st, call) ==
    LET ext == Append(h.calls, call)
    IN  IF /\ h.on
           /\ \E sc \in OpScripts : IsPrefix(Ops(ext), sc)
           /\ Continues(h, call)
        THEN [h EXCEPT !.calls = ext]
        ELSE IF Starts(call.op, st)
        THEN [on |-> TRUE, pre |-> Snap(st), calls |-> <<call>>]
        ELSE Off

\* A call of method op with argument arg in state st, with outcome r.
Call(op, arg, st, r) ==
    /\ password' = r.st.password
    /\ decrypted_master' = r.st.decrypted_master
    /\ config' = r.st.config
    /\ written_with' = r.st.written_with
    /\ first_master' = r.st.first_master
    /\ last' = [op |-> op, arg |-> arg, exc |-> r.exc, ret |-> r.ret,
                pre |-> Snap(st), unlocks |-> r.st.unlock_calls]
    /\ hist' = Track(hist, st,
                     [op |-> op, arg |-> arg, exc |-> r.exc, ret |-> r.ret,
                      post |-> Snap(r.st)])
    /\ UNCHANGED <<defaults, environ>>

EncWifs == {bip38_encrypt(w, m) : w \in Wifs, m \in Secrets}

StoreKeys == {config_key}

Environs == {EmptyDict} \cup {[k \in {"UNLOCK"} |-> v] : v \in Passwords}

Init ==
    /\ password = None
    /\ decrypted_master = None
    /\ config = EmptyDict
    /\ defaults = EmptyDict
    /\ environ \in Environs
    /\ written_with = None
    /\ first_master = None
    /\ last = [op |-> "__init__", arg |-> None, exc |-> "", ret |-> None,
               pre |-> NoSnap, unlocks |-> 0]
    /\ hist = Off

Unlock ==
    \E pw \in Passwords, rnd \in Secrets :
        Call("unlock", pw, State(rnd), unlock(State(rnd), pw))

Lock == Call("lock", None, Now, lock(Now))

NewMaster ==
    \E pw \in Passwords, rnd \in Secrets :
        Call("new_master", pw, State(rnd), new_master(State(rnd), pw))

ChangePassword ==
    \E pw \in Passwords \cup {None} :
        Call("change_password", pw, Now, change_password(Now, pw))

GetEncryptedMaster ==
    Call("get_encrypted_master", None, Now, get_encrypted_master(Now))

Encrypt ==
    \E wif \in Wifs : Call("encrypt", wif, Now, encrypt(Now, wif))

Decrypt ==
    \E wif \in EncWifs : Call("decrypt", wif, Now, decrypt(Now, wif))

Unlocked ==
    \E rnd \in Secrets : Call("unlocked", None, State(rnd), unlocked(State(rnd)))

Locked ==
    \E rnd \in Secrets : Call("locked", None, State(rnd), locked(State(rnd)))

HasMasterpassword ==
    Call("has_masterpassword", None, Now, has_masterpassword(Now))

GetItem ==
    \E key \in StoreKeys :
        Call("__getitem__", key, Now, Ok(Now, getitem(config, defaults, key)))

Get ==
    \E key \in StoreKeys : Call("get", key, Now, Ok(Now, get(config, key, None)))

SetDefault ==
    \E key \in StoreKeys :
        /\ defaults' = setdefault(defaults, key, <<Dollar>>)
        /\ last' = [op |-> "setdefault", arg |-> key, exc |-> "", ret |-> None,
                    pre |-> Snap(Now), unlocks |-> 0]
        /\ UNCHANGED <<password, decrypted_master, config, environ,
                       written_with, first_master, hist>>

Next ==
    \/ Unlock
    \/ Lock
    \/ NewMaster
    \/ ChangePassword
    \/ GetEncryptedMaster
    \/ Encrypt
    \/ Decrypt
    \/ Unlocked
    \/ Locked
    \/ HasMasterpassword
    \/ GetItem
    \/ Get
    \/ SetDefault

Spec == Init /\ [][Next]_vars

(***************************************************************************)
(* Vocabulary of the properties.                                           *)
(***************************************************************************)
\* The store cfg holds an entry (as the code tests it).
EntryIn(cfg) == has_entry([config |-> cfg, defaults |-> defaults])

HasEntry == EntryIn(config)

\* UNLOCK is set to a non-empty value.
UnlockSet == "UNLOCK" \in DOMAIN environ /\ bool(environ["UNLOCK"])

\* The master secret an entry decrypts to under password pw (None if none).
SecretOf(entry, pw) ==
    LET parts == split(entry, Dollar)
    IN  IF Len(parts) # 2 \/ pw = None THEN None
        ELSE LET dec == aes_decrypt(pw, parts[2])
             IN  IF dec.raised \/ derive_checksum(dec.value) # parts[1]
                 THEN None
                 ELSE dec.value

\* hist holds exactly / at least the calls of a scenario with these methods.
Followed(ops) == hist.on /\ Ops(hist.calls) = ops

Following(ops) == hist.on /\ IsPrefix(ops, Ops(hist.calls))

UnlockLockUnlock == <<"unlock", "lock", "unlock">>

ChangeLockUnlock == <<"change_password", "lock", "unlock">>

ChangeLockUnlockLockUnlock ==
    <<"change_password", "lock", "unlock", "lock", "unlock">>
Wrong == "WrongMasterPasswordException"

\* The methods that need an unlocked store.
Guarded == {"encrypt", "decrypt", "change_password"}

\* The last call could try the environment's password: UNLOCK is set and
\* non-empty and the store held an entry.
AutoUnlockApplied == UnlockSet /\ EntryIn(last.pre.config)

(***************************************************************************)
(* C1.  unlock(P) on a store without entry, lock(), unlock(Q) with Q # P:  *)
(* the second unlock raises WrongMasterPasswordException and leaves no     *)
(* password held, no master secret resident and the entry as it was.       *)
(***************************************************************************)
C1_WrongPasswordStaysLocked ==
    (/\ Followed(UnlockLockUnlock)
     /\ ~EntryIn(hist.pre.config)
     /\ hist.calls[1].arg # hist.calls[3].arg)
    => /\ hist.calls[3].exc = Wrong
       /\ password = None
       /\ decrypted_master = None
       /\ config = hist.calls[2].post.config

\* The same for a non-empty P: it holds.
C1_ForNonEmptyP ==
    (/\ Followed(UnlockLockUnlock)
     /\ ~EntryIn(hist.pre.config)
     /\ hist.calls[1].arg # hist.calls[3].arg
     /\ bool(hist.calls[1].arg))
    => /\ hist.calls[3].exc = Wrong
       /\ password = None
       /\ decrypted_master = None
       /\ config = hist.calls[2].post.config

(***************************************************************************)
(* C2.  Whenever no password is held (the manager is not unlocked), the    *)
(* decrypted master secret is not resident: masterkey is None.             *)
(***************************************************************************)
C2_NoSecretWithoutPassword == password = None => decrypted_master = None

(***************************************************************************)
(* C3.  unlock(P) on a store without entry, lock(), unlock(P): the second  *)
(* unlock returns normally and leaves the manager unlocked with the master *)
(* secret the first unlock generated.                                      *)
(***************************************************************************)
C3_SamePasswordRoundTrip ==
    (/\ Followed(UnlockLockUnlock)
     /\ ~EntryIn(hist.pre.config)
     /\ hist.calls[1].arg = hist.calls[3].arg)
    => /\ hist.calls[3].exc = ""
       /\ bool(password)
       /\ decrypted_master # None
       /\ decrypted_master = hist.calls[1].post.decrypted_master

\* The same for a non-empty P: it holds.
C3_ForNonEmptyP ==
    (/\ Followed(UnlockLockUnlock)
     /\ ~EntryIn(hist.pre.config)
     /\ hist.calls[1].arg = hist.calls[3].arg
     /\ bool(hist.calls[1].arg))
    => /\ hist.calls[3].exc = ""
       /\ bool(password)
       /\ decrypted_master # None
       /\ decrypted_master = hist.calls[1].post.decrypted_master

\* The scenario of C4 started unlocked under P, with a str Q # P.
C4_Scenario ==
    /\ bool(hist.pre.password)
    /\ hist.calls[1].arg # None
    /\ hist.calls[1].arg # hist.pre.password

(***************************************************************************)
(* C4.  From a manager unlocked under P: change_password(Q) with Q # P,    *)
(* lock(), unlock(Q) returns normally with the master secret held before   *)
(* the change; then lock(), unlock(P) raises WrongMasterPasswordException. *)
(***************************************************************************)
C4_ChangedPasswordUnlocks ==
    /\ (/\ Following(ChangeLockUnlock)
        /\ C4_Scenario
        /\ hist.calls[3].arg = hist.calls[1].arg)
       => /\ hist.calls[3].exc = ""
          /\ hist.calls[3].post.decrypted_master = hist.pre.decrypted_master
    /\ (/\ Followed(ChangeLockUnlockLockUnlock)
        /\ C4_Scenario
        /\ hist.calls[3].arg = hist.calls[1].arg
        /\ hist.calls[5].arg = hist.pre.password)
       => hist.calls[5].exc = Wrong

\* The same for a non-empty Q: it holds.
C4_ForNonEmptyQ ==
    /\ (/\ Following(ChangeLockUnlock)
        /\ C4_Scenario
        /\ bool(hist.calls[1].arg)
        /\ hist.calls[3].arg = hist.calls[1].arg)
       => /\ hist.calls[3].exc = ""
          /\ hist.calls[3].post.decrypted_master = hist.pre.decrypted_master
    /\ (/\ Followed(ChangeLockUnlockLockUnlock)
        /\ C4_Scenario
        /\ bool(hist.calls[1].arg)
        /\ hist.calls[3].arg = hist.calls[1].arg
        /\ hist.calls[5].arg = hist.pre.password)
       => hist.calls[5].exc = Wrong

(***************************************************************************)
(* C5.  Once the entry exists, every value it takes decrypts, under the    *)
(* password it was written with, to the master secret of the first entry   *)
(* ever written: one master secret is persisted per store.                 *)
(***************************************************************************)
C5_MasterSecretNeverChanges ==
    HasEntry =>
        /\ first_master # None
        /\ SecretOf(config[config_key], written_with) = first_master

\* The entry has been written again, under another password.
C5_Witness ==
    /\ last.op = "change_password"
    /\ last.exc = ""
    /\ EntryIn(last.pre.config)
    /\ written_with # last.pre.written_with
    /\ config # last.pre.config

C7_AutoUnlockFailsSilently ==
    (/\ last.op \in {"unlocked", "locked"}
     /\ last.pre.password = None
     /\ EntryIn(last.pre.config)
     /\ UnlockSet
     /\ environ["UNLOCK"] # last.pre.written_with)
    => /\ last.exc = ""
       /\ last.ret = (last.op = "locked")

(***************************************************************************)
(* C8.  unlock(password) on a store without entry, for every password,     *)
(* the empty string included, returns normally: the entry is written, the  *)
(* password is held, the new master secret is resident and unlocked() is   *)
(* True.                                                                   *)
(***************************************************************************)
C8_UnlockCreatesMaster ==
    (last.op = "unlock" /\ ~EntryIn(last.pre.config))
    => /\ last.exc = ""
       /\ HasEntry
       /\ password = last.arg
       /\ decrypted_master \in Secrets
       /\ SecretOf(config[config_key], last.arg) = decrypted_master
       /\ (\A rnd \in Secrets : unlocked(State(rnd)).ret = TRUE)

\* The same for a non-empty password: it holds.
C8_ForNonEmptyPassword ==
    (last.op = "unlock" /\ ~EntryIn(last.pre.config) /\ bool(last.arg))
    => /\ last.exc = ""
       /\ HasEntry
       /\ password = last.arg
       /\ decrypted_master \in Secrets
       /\ SecretOf(config[config_key], last.arg) = decrypted_master
       /\ (\A rnd \in Secrets : unlocked(State(rnd)).ret = TRUE)

(***************************************************************************)
(* C9.  change_password(new_password) on an unlocked manager, for every    *)
(* new password, the empty string and None included, returns normally: the *)
(* entry is the held master secret encrypted under new_password, which is  *)
(* the held password, and the manager is still unlocked.                   *)
(***************************************************************************)
C9_ChangePasswordSucceeds ==
    (last.op = "change_password" /\ bool(last.pre.password))
    => /\ last.exc = ""
       /\ HasEntry
       /\ config[config_key] =
              format_entry(derive_checksum(last.pre.decrypted_master),
                           aes_encrypt(last.arg, last.pre.decrypted_master))
       /\ password = last.arg
       /\ bool(password)
       /\ decrypted_master = last.pre.decrypted_master

\* The same for a non-empty new password: it holds.
C9_ForNonEmptyPassword ==
    (last.op = "change_password" /\ bool(last.pre.password) /\ bool(last.arg))
    => /\ last.exc = ""
       /\ HasEntry
       /\ config[config_key] =
              format_entry(derive_checksum(last.pre.decrypted_master),
                           aes_encrypt(last.arg, last.pre.decrypted_master))
       /\ password = last.arg
       /\ bool(password)
       /\ decrypted_master = last.pre.decrypted_master

\* The methods C10 says never write the entry (unlock aside).
Readers ==
    {"lock", "encrypt", "decrypt", "get_encrypted_master",
     "locked", "unlocked", "has_masterpassword"}

(***************************************************************************)
(* C10.  The entry is written only by the first creation (unlock or        *)
(* new_master on a store without entry) and by change_password: lock,      *)
(* unlock on a store with an entry, encrypt, decrypt, get_encrypted_master *)
(* and the queries locked, unlocked and has_masterpassword leave the store *)
(* as it was, their auto-unlock attempt included.                          *)
(***************************************************************************)
C10_EntryWrittenOnlyByCreationAndChange ==
    /\ (last.op \in Readers \/ (last.op = "unlock" /\ EntryIn(last.pre.config)))
       => config = last.pre.config
    /\ config # last.pre.config
       => \/ (last.op \in {"unlock", "new_master"} /\ ~EntryIn(last.pre.config))
          \/ last.op = "change_password"

\* unlocked() or locked() on a store without entry, with UNLOCK set.
C10_Witness ==
    /\ last.op \in {"unlocked", "locked"}
    /\ last.pre.password = None
    /\ UnlockSet
    /\ ~EntryIn(last.pre.config)
    /\ ~HasEntry

(***************************************************************************)
(* C11.  Whenever the entry exists, its value is '<checksum>$<ciphertext>' *)
(* with exactly one '$': the ciphertext is the encryption of the store's   *)
(* master secret under some password and the checksum is the first 4 hex   *)
(* characters of the SHA-256 digest of the master secret.                  *)
(***************************************************************************)
C11_EntryIsChecksumAndCiphertext ==
    HasEntry =>
        LET parts == split(config[config_key], Dollar)
        IN  /\ Len(parts) = 2
            /\ Cardinality({i \in 1..Len(config[config_key]) :
                               config[config_key][i] = Dollar}) = 1
            /\ first_master \in Secrets
            /\ parts[1] = SubSeq(hexdigest(first_master), 1, 4)
            /\ parts[1] = derive_checksum(first_master)
            /\ \E pw \in Passwords : parts[2] = aes_encrypt(pw, first_master)

\* The entry of a locked store, which another password does not decrypt.
C11_Witness ==
    /\ HasEntry
    /\ last.op = "lock"
    /\ written_with # None
    /\ \E pw \in Passwords :
           pw # written_with /\ SecretOf(config[config_key], pw) = None

EncryptDecrypt == <<"encrypt", "decrypt">>

EncryptChangeLockUnlockDecrypt ==
    <<"encrypt", "change_password", "lock", "unlock", "decrypt">>

(***************************************************************************)
(* C12.  While unlocked, decrypt(encrypt(k)) returns k, for every private  *)
(* key k; and it still does when change_password(Q), lock() and unlock(Q)  *)
(* happen between the encrypt and the decrypt, for every password Q.       *)
(***************************************************************************)
C12_WrappedKeysSurvivePasswordChange ==
    /\ (Followed(EncryptDecrypt) /\ hist.calls[1].exc = "")
       => /\ hist.calls[2].exc = ""
          /\ hist.calls[2].ret = hist.calls[1].arg
    /\ (Followed(EncryptChangeLockUnlockDecrypt) /\ hist.calls[1].exc = "")
       => /\ hist.calls[5].exc = ""
          /\ hist.calls[5].ret = hist.calls[1].arg

\* The same for a non-empty Q: it holds.
C12_ForNonEmptyQ ==
    /\ (Followed(EncryptDecrypt) /\ hist.calls[1].exc = "")
       => /\ hist.calls[2].exc = ""
          /\ hist.calls[2].ret = hist.calls[1].arg
    /\ (/\ Followed(EncryptChangeLockUnlockDecrypt)
        /\ hist.calls[1].exc = ""
        /\ bool(hist.calls[2].arg))
       => /\ hist.calls[5].exc = ""
          /\ hist.calls[5].ret = hist.calls[1].arg

\* raise Exception("Storage already has a masterpassword!")
AlreadyInitialized == "Exception"

(***************************************************************************)
(* C13.  new_master(password) on a store that holds a non-empty entry      *)
(* raises the 'Storage already has a masterpassword!' error and leaves the *)
(* entry, the held password and the resident master secret as they were.   *)
(***************************************************************************)
C13_NewMasterRefusesExistingEntry ==
    (last.op = "new_master" /\ EntryIn(last.pre.config))
    => /\ last.exc = AlreadyInitialized
       /\ config = last.pre.config
       /\ password = last.pre.password
       /\ decrypted_master = last.pre.decrypted_master

\* new_master called on an unlocked manager, with another password.
C13_Witness ==
    /\ last.op = "new_master"
    /\ EntryIn(last.pre.config)
    /\ bool(last.pre.password)
    /\ last.pre.decrypted_master \in Secrets
    /\ last.arg # last.pre.password
    /\ last.exc = AlreadyInitialized

(***************************************************************************)
(* C14.  lock() in any reachable state leaves no password held and no      *)
(* master secret resident, leaves the entry as it was, and is idempotent:  *)
(* a second lock() leaves the state the first one left.                    *)
(***************************************************************************)
C14_LockDiscardsAndIsIdempotent ==
    last.op = "lock"
    => /\ last.exc = ""
       /\ password = None
       /\ masterkey(Now) = None
       /\ config = last.pre.config
       /\ lock(Now).exc = ""
       /\ lock(Now).st = Now

\* lock() on an unlocked manager.
C14_Witness ==
    /\ last.op = "lock"
    /\ bool(last.pre.password)
    /\ last.pre.decrypted_master \in Secrets
    /\ HasEntry
    /\ password = None

\* What a lookup of key is to return: the stored value, else the class-level
\* default registered for the key, else None.
Lookup(cfg, key) ==
    IF key \in DOMAIN cfg THEN cfg[key]
    ELSE IF key \in DOMAIN defaults THEN defaults[key]
    ELSE None

(***************************************************************************)
(* C15.  For every store content, every set of registered defaults and     *)
(* every key, both store[key] and store.get(key) return the stored value   *)
(* if the key is present, otherwise the default registered for the key,    *)
(* otherwise None, and never raise.                                        *)
(***************************************************************************)
C15_LookupFallsBackToDefault ==
    last.op \in {"__getitem__", "get"}
    => /\ last.exc = ""
       /\ last.ret = Lookup(last.pre.config, last.arg)

\* The same for store[key] alone: it holds.
C15_ForGetItem ==
    last.op = "__getitem__"
    => /\ last.exc = ""
       /\ last.ret = Lookup(last.pre.config, last.arg)

\* The two ways unlock(pw) fails on an entry: the cipher raises, or it returns
\* a value whose checksum differs from the stored one.
CipherRaises(entry, pw) == aes_decrypt(pw, split(entry, Dollar)[2]).raised

ChecksumDiffers(entry, pw) ==
    LET parts == split(entry, Dollar)
        dec == aes_decrypt(pw, parts[2])
    IN  ~dec.raised /\ parts[1] # derive_checksum(dec.value)

(***************************************************************************)
(* C16.  On a locked store, unlock(p) where the cipher raises and          *)
(* unlock(q) where the decrypted value has another checksum have the same  *)
(* outcome: both raise WrongMasterPasswordException and leave the same     *)
(* state, with no password held and the secret and the entry as they were. *)
(***************************************************************************)
C16_FailureCausesIndistinguishable ==
    (HasEntry /\ password = None)
    => \A p, q \in Passwords, rnd \in Secrets :
           (CipherRaises(config[config_key], p) /\ ChecksumDiffers(config[config_key], q))
           => /\ unlock(State(rnd), p).exc = Wrong
              /\ unlock(State(rnd), q).exc = Wrong
              /\ unlock(State(rnd), p).ret = unlock(State(rnd), q).ret
              /\ unlock(State(rnd), p).st = unlock(State(rnd), q).st
              /\ unlock(State(rnd), p).st.password = None
              /\ unlock(State(rnd), p).st.decrypted_master = decrypted_master
              /\ unlock(State(rnd), p).st.config = config

\* A locked store left by an unlock on which the cipher raised, with another
\* password under which the cipher returns a value with another checksum.
C16_Witness ==
    /\ HasEntry
    /\ password = None
    /\ decrypted_master = None
    /\ last.op = "unlock"
    /\ last.exc = Wrong
    /\ CipherRaises(config[config_key], last.arg)
    /\ \E q \in Passwords : ChecksumDiffers(config[config_key], q)

\* The last call left the password, the secret and the entry as they were.
Untouched ==
    /\ password = last.pre.password
    /\ decrypted_master = last.pre.decrypted_master
    /\ config = last.pre.config

(***************************************************************************)
(* C17.  unlocked() with a password held answers bool(password) without    *)
(* calling unlock, whatever UNLOCK is.  With no password held, UNLOCK      *)
(* non-empty and an entry in the store, it calls unlock(UNLOCK) exactly    *)
(* once, and when UNLOCK is the store's password it returns True and       *)
(* leaves the manager unlocked with the store's master secret resident.    *)
(* With no password held and no entry it returns False without calling     *)
(* unlock.                                                                 *)
(***************************************************************************)
C17_AutoUnlockOnlyWithoutPassword ==
    /\ (last.op = "unlocked" /\ last.pre.password # None)
       => /\ last.exc = ""
          /\ last.ret = bool(last.pre.password)
          /\ last.unlocks = 0
          /\ Untouched
          /\ \A env \in Environs, rnd \in Secrets :
                 unlocked([State(rnd) EXCEPT !.environ = env]) =
                     Ok([State(rnd) EXCEPT !.environ = env], bool(password))
    /\ (/\ last.op = "unlocked"
        /\ last.pre.password = None
        /\ UnlockSet
        /\ EntryIn(last.pre.config))
       => /\ last.unlocks = 1
          /\ (environ["UNLOCK"] = last.pre.written_with
               => /\ last.exc = ""
                  /\ last.ret = TRUE
                  /\ password = environ["UNLOCK"]
                  /\ decrypted_master \in Secrets
                  /\ decrypted_master = first_master
                  /\ config = last.pre.config)
    /\ (/\ last.op = "unlocked"
        /\ last.pre.password = None
        /\ ~EntryIn(last.pre.config))
       => /\ last.exc = ""
          /\ last.ret = FALSE
          /\ last.unlocks = 0
          /\ Untouched

\* unlocked() on a locked store with UNLOCK set to the store's password.
C17_Witness ==
    /\ last.op = "unlocked"
    /\ last.pre.password = None
    /\ last.pre.decrypted_master = None
    /\ EntryIn(last.pre.config)
    /\ UnlockSet
    /\ environ["UNLOCK"] = last.pre.written_with
    /\ last.unlocks = 1
    /\ last.ret = TRUE

(***************************************************************************)
(* C18.  From every reachable state with an entry in the store, whatever   *)
(* failed before, unlock(P) with the password P the entry was last written *)
(* with returns normally and leaves the manager unlocked, with the store's *)
(* original master secret resident.                                        *)
(***************************************************************************)
C18_RetryIsSafe ==
    (/\ last.op = "unlock"
     /\ EntryIn(last.pre.config)
     /\ last.arg = last.pre.written_with)
    => /\ last.exc = ""
       /\ password = last.arg
       /\ bool(password)
       /\ decrypted_master \in Secrets
       /\ decrypted_master = first_master
       /\ config = last.pre.config
       /\ \A rnd \in Secrets : unlocked(State(rnd)).ret = TRUE

\* A retry from what a failed call left: a failed change_password('') leaves
\* the empty password held, a failed unlock a resident secret with no password.
C18_Witness ==
    /\ last.op = "unlock"
    /\ EntryIn(last.pre.config)
    /\ last.arg = last.pre.written_with
    /\ \/ last.pre.password = <<>>
       \/ (last.pre.password = None /\ last.pre.decrypted_master # None)
    /\ last.exc = ""

\* os.environ holds no UNLOCK.
UnlockUnset == "UNLOCK" \notin DOMAIN environ

(***************************************************************************)
(* C19.  With UNLOCK unset, whenever unlocked() returns True the master    *)
(* secret is resident, an entry exists, the entry's checksum is            *)
(* derive_checksum(masterkey) and the entry's ciphertext decrypts, under   *)
(* the held password, to masterkey.                                        *)
(***************************************************************************)
C19_UnlockedIsConsistent ==
    (UnlockUnset /\ unlocked(Now).exc = "" /\ unlocked(Now).ret = TRUE)
    => /\ masterkey(Now) # None
       /\ masterkey(Now) \in Secrets
       /\ HasEntry
       /\ LET parts == split(config[config_key], Dollar)
          IN  /\ Len(parts) = 2
              /\ parts[1] = derive_checksum(masterkey(Now))
              /\ ~aes_decrypt(password, parts[2]).raised
              /\ aes_decrypt(password, parts[2]).value = masterkey(Now)

\* unlocked() answering True with UNLOCK unset.
C19_Witness ==
    /\ UnlockUnset
    /\ last.op = "unlocked"
    /\ last.exc = ""
    /\ last.ret = TRUE
    /\ bool(password)
    /\ HasEntry

\* The methods that raise WalletLocked, themselves or through a method they call.
RaisingWalletLocked ==
    {"unlock", "new_master", "change_password", "get_encrypted_master",
     "encrypt", "decrypt"}

(***************************************************************************)
(* C20.  Whenever unlock, new_master, change_password,                     *)
(* get_encrypted_master, encrypt or decrypt raises WalletLocked, the held  *)
(* password, the resident master secret and the entry are what they were   *)
(* before the call.                                                        *)
(***************************************************************************)
C20_WalletLockedIsAtomic ==
    (last.op \in RaisingWalletLocked /\ last.exc = "WalletLocked")
    => Untouched

\* The same for get_encrypted_master, encrypt and decrypt, which assign
\* nothing before the test: it holds.
C20_ForReaders ==
    (/\ last.op \in {"get_encrypted_master", "encrypt", "decrypt"}
     /\ last.exc = "WalletLocked")
    => Untouched

====
